---- MODULE Spec2Model ----
(***************************************************************************)
(* The iterator snippets of the blog repository:                           *)
(*   static/snippets/file_iterator.py     FileIterator                     *)
(*   static/snippets/cycle.py             Cycle                            *)
(*   static/snippets/infinite_counter.py  InfiniteCounter                  *)
(*   public/snippets/treenode.py          TreeNode, BinaryTree             *)
(* Every snippet is a script of its own; a behaviour runs one of them.     *)
(* The caller of the snippet's class is the environment: it may call the   *)
(* iterator protocol's two methods, __iter__ and __next__, in any order.   *)
(***************************************************************************)
EXTENDS Integers, Sequences, FiniteSets

VARIABLES
    script,     \* which snippet this behaviour runs
    result,     \* outcome of the last protocol call: [op, kind, val]
    content,    \* FileIterator: the characters of the file at self.filepath
    present,    \* FileIterator: whether open(self.filepath) succeeds right now
    file,       \* FileIterator: self.file (NoFile while the attribute is unset)
    handles,    \* FileIterator: every file object open() has returned, in order
    out,        \* FileIterator: outcomes of the __next__ calls since the last
                \*               successful __iter__ (since construction if none)
    data,       \* Cycle: self.data
    index,      \* Cycle: self.index
    cycleOut,   \* Cycle: outcomes of the __next__ calls since construction
    start,      \* InfiniteCounter: the start argument of __init__
    current,    \* InfiniteCounter: self.current
    counterOut, \* InfiniteCounter: outcomes of the __next__ calls
    root,       \* BinaryTree: self.root
    cursors,    \* BinaryTree: the generators __iter__ has returned, in order
    treeOut     \* BinaryTree: per generator, the outcomes of its __next__ calls

fileVars == <<content, present, file, handles, out>>
cycleVars == <<data, index, cycleOut>>
counterVars == <<start, current, counterOut>>
treeVars == <<root, cursors, treeOut>>

vars == <<script, result, fileVars, cycleVars, counterVars, treeVars>>

(***************************************************************************)
(* Bounds of the model.                                                    *)
(***************************************************************************)
MaxLen == 3         \* longest file content, in characters
MaxStarts == 2      \* successful open() calls in one behaviour
MaxCalls == 5       \* __next__ calls recorded after one __iter__
MaxData == 3        \* Cycle: longest backing list, and its largest element
MaxCycleCalls == 10 \* Cycle: __next__ calls in one behaviour
StartRange == 2     \* InfiniteCounter: start values are -StartRange..StartRange
MaxCount == 12      \* InfiniteCounter: __next__ calls in one behaviour
MaxNodes == 3       \* BinaryTree: nodes of a tree
MaxCursors == 2     \* BinaryTree: __iter__ calls in one behaviour
MaxExtraCalls == 2  \* BinaryTree: __next__ calls of a generator beyond its elements

(***************************************************************************)
(* Outcomes of a call.  An element and the exhaustion signal               *)
(* (StopIteration) are the protocol's two normal outcomes; every other     *)
(* exception is a hard failure, named in val.                              *)
(***************************************************************************)
NoCall == [op |-> "init", kind |-> "none", val |-> "none"]
Returned(o, k, v) == [op |-> o, kind |-> k, val |-> v]
Elem(v) == Returned("next", "elem", v)
StopIteration == Returned("next", "stop", "StopIteration")
Raised(o, e) == Returned(o, "error", e)

(***************************************************************************)
(* Text.  A file is a sequence of characters; "\n" ends a line.            *)
(***************************************************************************)
Char == {"a", "b", " ", "\n"}
Whitespace == {" ", "\n"}

SeqsUpTo(S, n) == UNION {[1..k -> S] : k \in 0..n}

\* the file of the usage demo, 'example.txt', is not part of the repository;
\* this one holds the lines a, b, c
DemoContent == <<"a", "\n", "b", "\n", "c", "\n">>

\* a file with a blank line between two lines: a, '', b
GappedContent == <<"a", "\n", "\n", "b", "\n">>

Contents == SeqsUpTo(Char, MaxLen) \cup {DemoContent, GappedContent}

\* file.readline() at offset pos: the characters up to and including the next
\* "\n", or up to the end of the file; '' (the empty sequence) at the end
LineEnd(text, pos) ==
    IF \E i \in (pos + 1)..Len(text) : text[i] = "\n"
    THEN CHOOSE i \in (pos + 1)..Len(text) :
            /\ text[i] = "\n"
            /\ \A j \in (pos + 1)..(i - 1) : text[j] # "\n"
    ELSE Len(text)

ReadLine(text, pos) == SubSeq(text, pos + 1, LineEnd(text, pos))

RECURSIVE LStrip(_)
LStrip(s) ==
    IF s # <<>> /\ Head(s) \in Whitespace THEN LStrip(Tail(s)) ELSE s

RECURSIVE RStrip(_)
RStrip(s) ==
    IF s # <<>> /\ s[Len(s)] \in Whitespace
    THEN RStrip(SubSeq(s, 1, Len(s) - 1))
    ELSE s

\* str.strip(): leading and trailing whitespace removed
Strip(s) == RStrip(LStrip(s))

(***************************************************************************)
(* FileIterator                                                            *)
(***************************************************************************)
NoFile == 0

\* variant of NewHandle: the new file object continues where the one it
\* replaces stood
NewHandleResumed ==
    [pos |-> IF file = NoFile THEN 0 ELSE handles[file].pos,
     open |-> TRUE, closes |-> 0]

\* a file object as open() returns it: positioned at the start, open
NewHandle == [pos |-> 0, open |-> TRUE, closes |-> 0]

\* file.close()
Closed(h) == [h EXCEPT !.open = FALSE, !.closes = @ + 1]

\* the runtime reclaiming a file object nothing refers to any more
Reclaimed(h) == [h EXCEPT !.open = FALSE]

\* FileIterator.__init__: only self.filepath is set
FileInit ==
    /\ file = NoFile
    /\ handles = <<>>
    /\ out = <<>>

\* variant of FailedOpen: the exception of open() is swallowed and __iter__
\* returns self as if the file had been opened
FailedOpenSwallowed ==
    /\ result' = Returned("iter", "self", "self")
    /\ UNCHANGED <<file, handles, out>>

\* open() raising in __iter__: the assignment to self.file never happens and
\* the exception leaves __iter__
FailedOpen ==
    /\ result' = Raised("iter", "FileNotFoundError")
    /\ UNCHANGED <<file, handles, out>>

\* FileIterator.__iter__: self.file = open(self.filepath, 'r'); return self.
\* open() raises when the file cannot be opened, before self.file is bound.
\* Rebinding self.file drops the last reference to the previous file object:
\* a reference-counting runtime closes it on the spot (reclaim), a tracing one
\* later or never (see Finalize).
FileIter ==
    /\ script = "file"
    /\ \E reclaim \in BOOLEAN :
        IF present
        THEN /\ Len(handles) < MaxStarts
             /\ handles' = Append(
                    [h \in 1..Len(handles) |->
                        IF h = file /\ reclaim /\ handles[h].open
                        THEN Reclaimed(handles[h])
                        ELSE handles[h]],
                    NewHandle)
             /\ file' = Len(handles) + 1
             /\ out' = <<>>
             /\ result' = Returned("iter", "self", "self")
        ELSE FailedOpen
    /\ UNCHANGED <<script, content, present, cycleVars, counterVars, treeVars>>

\* variant of NextOutcome: a missing self.file is taken for the end of the
\* iteration
NextOutcomeUnsetStops ==
    IF file = NoFile \/ ~handles[file].open
    THEN StopIteration
    ELSE IF ReadLine(content, handles[file].pos) = <<>>
    THEN StopIteration
    ELSE Elem(Strip(ReadLine(content, handles[file].pos)))

\* variant of NextOutcome: the line is stripped before it is compared with '',
\* so a blank line ends the iteration
NextOutcomeBlankStops ==
    IF file = NoFile
    THEN Raised("next", "AttributeError")
    ELSE IF ~handles[file].open
    THEN Raised("next", "ValueError")
    ELSE IF Strip(ReadLine(content, handles[file].pos)) = <<>>
    THEN StopIteration
    ELSE Elem(Strip(ReadLine(content, handles[file].pos)))

\* what FileIterator.__next__ raises or returns, and the file object after it
NextOutcome ==
    IF file = NoFile
    THEN Raised("next", "AttributeError")        \* self.file is not set
    ELSE IF ~handles[file].open
    THEN Raised("next", "ValueError")            \* readline() of a closed file
    ELSE IF ReadLine(content, handles[file].pos) = <<>>
    THEN StopIteration
    ELSE Elem(Strip(ReadLine(content, handles[file].pos)))

\* variant of NextHandle: the close() at the end of the file is missing
NextHandleNeverClosed ==
    IF ReadLine(content, handles[file].pos) = <<>>
    THEN handles[file]
    ELSE [handles[file] EXCEPT !.pos = LineEnd(content, @)]

\* variant of NextHandle: the file is closed as soon as its last line is read
NextHandleClosedEarly ==
    IF ReadLine(content, handles[file].pos) = <<>>
    THEN Closed(handles[file])
    ELSE IF LineEnd(content, handles[file].pos) = Len(content)
    THEN Closed([handles[file] EXCEPT !.pos = Len(content)])
    ELSE [handles[file] EXCEPT !.pos = LineEnd(content, @)]

\* the file object after a __next__ that raises no hard failure: closed at
\* the end of the file, else moved past the line read
NextHandle ==
    IF ReadLine(content, handles[file].pos) = <<>>
    THEN Closed(handles[file])
    ELSE [handles[file] EXCEPT !.pos = LineEnd(content, @)]

\* FileIterator.__next__
FileNext ==
    /\ script = "file"
    /\ Len(out) < MaxCalls
    /\ result' = NextOutcome
    /\ out' = Append(out, NextOutcome)
    /\ handles' = IF NextOutcome.kind = "error"
                  THEN handles
                  ELSE [handles EXCEPT ![file] = NextHandle]
    /\ UNCHANGED <<script, content, present, file, cycleVars, counterVars, treeVars>>

\* the runtime reclaims a file object that self.file no longer refers to
Finalize ==
    /\ script = "file"
    /\ \E h \in 1..Len(handles) :
        /\ h # file
        /\ handles[h].open
        /\ handles' = [handles EXCEPT ![h] = Reclaimed(@)]
    /\ UNCHANGED <<script, result, content, present, file, out>>
    /\ UNCHANGED <<cycleVars, counterVars, treeVars>>

\* the file system, between two calls: the file at self.filepath is removed
\* or made unreadable, or comes back (an open handle keeps reading it)
FileSystemChange ==
    /\ script = "file"
    /\ present' = ~present
    /\ UNCHANGED <<script, result, content, file, handles, out>>
    /\ UNCHANGED <<cycleVars, counterVars, treeVars>>

(***************************************************************************)
(* Cycle                                                                   *)
(***************************************************************************)
\* the list of the usage demo: Cycle([1, 2, 3])
DemoData == <<1, 2, 3>>

Datas == SeqsUpTo(1..MaxData, MaxData) \cup {DemoData}

\* Cycle.__init__
CycleInit == index = 0 /\ cycleOut = <<>>

\* variant of CycleIter: __iter__ rewinds the cycle
CycleIterRewinds ==
    /\ script = "cycle"
    /\ result' = Returned("iter", "self", "self")
    /\ index' = 0
    /\ UNCHANGED <<script, data, cycleOut, fileVars, counterVars, treeVars>>

\* Cycle.__iter__: return self
CycleIter ==
    /\ script = "cycle"
    /\ result' = Returned("iter", "self", "self")
    /\ UNCHANGED <<script, fileVars, cycleVars, counterVars, treeVars>>

\* variant of CycleElement: the index is clamped to the last element instead
\* of wrapped
CycleElementClamped == data[IF index < Len(data) THEN index + 1 ELSE Len(data)]

\* self.data[self.index % len(self.data)] (sequences count from 1)
CycleElement == data[(index % Len(data)) + 1]

\* variant of CycleIndex: the index is wrapped when it is stored
CycleIndexWrapped == IF data = <<>> THEN index ELSE (index + 1) % Len(data)

\* variant of CycleIndex: the increment precedes the emptiness test
CycleIndexAlways == index + 1

\* self.index after __next__: the increment follows the emptiness test
CycleIndex == IF data = <<>> THEN index ELSE index + 1

CycleOutcome == IF data = <<>> THEN StopIteration ELSE Elem(CycleElement)

\* Cycle.__next__
CycleNext ==
    /\ script = "cycle"
    /\ Len(cycleOut) < MaxCycleCalls
    /\ result' = CycleOutcome
    /\ index' = CycleIndex
    /\ cycleOut' = Append(cycleOut, CycleOutcome)
    /\ UNCHANGED <<script, data, fileVars, counterVars, treeVars>>

(***************************************************************************)
(* InfiniteCounter                                                         *)
(***************************************************************************)
\* the start value of the usage demo: InfiniteCounter(10)
DemoStart == 10

\* start=0 is the default
Starts == (-StartRange..StartRange) \cup {DemoStart}

\* InfiniteCounter.__init__
CounterInit == current = start /\ counterOut = <<>>

\* InfiniteCounter.__iter__: return self
CounterIter ==
    /\ script = "counter"
    /\ result' = Returned("iter", "self", "self")
    /\ UNCHANGED <<script, fileVars, cycleVars, counterVars, treeVars>>

\* variant of CounterValue: the value is read after the increment
CounterValueAfter == current + 1

\* current_value = self.current, taken before the increment
CounterValue == current

\* InfiniteCounter.__next__
CounterNext ==
    /\ script = "counter"
    /\ Len(counterOut) < MaxCount
    /\ result' = Elem(CounterValue)
    /\ current' = current + 1
    /\ counterOut' = Append(counterOut, Elem(CounterValue))
    /\ UNCHANGED <<script, start, fileVars, cycleVars, treeVars>>

(***************************************************************************)
(* TreeNode, BinaryTree                                                    *)
(***************************************************************************)
\* a TreeNode is <<left, val, right>>; None is the empty tuple
None == <<>>
TreeNode(l, v, r) == <<l, v, r>>
Left(node) == node[1]
Val(node) == node[2]
Right(node) == node[3]

TreeVals == {1, 2}

RECURSIVE TreesOfSize(_)
TreesOfSize(n) ==
    IF n = 0
    THEN {None}
    ELSE UNION {{TreeNode(l, v, r) :
                    l \in TreesOfSize(k), v \in TreeVals, r \in TreesOfSize(n - 1 - k)} :
                k \in 0..(n - 1)}

\* the tree of the usage demo: 1 over (2 over 4, 5) and 3
DemoTree ==
    TreeNode(TreeNode(TreeNode(None, 4, None), 2, TreeNode(None, 5, None)),
             1,
             TreeNode(None, 3, None))

Trees == UNION {TreesOfSize(n) : n \in 0..MaxNodes} \cup {DemoTree}

\* A generator of in_order_traversal is a stack of frames <<node, at>>, the
\* innermost last; at is where the frame stands in the function body:
\*   "start"  created, nothing run yet
\*   "left"   in `yield from self.in_order_traversal(node.left)`
\*   "val"    suspended at `yield node.val`
\*   "right"  in `yield from self.in_order_traversal(node.right)`
\* A frame below the top is waiting for the frame above it; a frame on top at
\* "left" or "right" has just seen its sub-generator finish.
Frame(node, at) == <<node, at>>

\* variant of FirstChild: line 16 walks node.right
FirstChildRight(node) == node[3]

\* variant of SecondChild: line 18 walks the node itself again
SecondChildSelf(node) == node

\* the sub-generators of the two `yield from` lines
FirstChild(node) == Left(node)
SecondChild(node) == Right(node)

\* next() on a generator: run to the next yield, or to the end
RECURSIVE Resume(_)
Resume(stack) ==
    IF stack = <<>>
    THEN [stack |-> <<>>, outcome |-> StopIteration]
    ELSE LET node == stack[Len(stack)][1]
             at == stack[Len(stack)][2]
             below == SubSeq(stack, 1, Len(stack) - 1)
         IN  CASE at = "start" ->
                    IF node = None
                    THEN Resume(below)
                    ELSE Resume(below \o <<Frame(node, "left"),
                                           Frame(FirstChild(node), "start")>>)
               [] at = "left" ->
                    [stack |-> Append(below, Frame(node, "val")),
                     outcome |-> Elem(Val(node))]
               [] at = "val" ->
                    Resume(below \o <<Frame(node, "right"),
                                      Frame(SecondChild(node), "start")>>)
               [] at = "right" -> Resume(below)

\* variant of NewCursor: __iter__ hands out the position of the generator it
\* returned last (cursor state kept in the adapter)
NewCursorShared ==
    IF cursors = <<>> THEN <<<<root, "start">>>> ELSE cursors[Len(cursors)]

\* the generator BinaryTree.__iter__ returns: in_order_traversal(self.root),
\* not yet started
NewCursor == <<Frame(root, "start")>>

RECURSIVE NodeCount(_)
NodeCount(t) ==
    IF t = None THEN 0 ELSE NodeCount(Left(t)) + 1 + NodeCount(Right(t))

\* BinaryTree.__init__
TreeInit == cursors = <<>> /\ treeOut = <<>>

\* BinaryTree.__iter__
TreeIter ==
    /\ script = "tree"
    /\ Len(cursors) < MaxCursors
    /\ cursors' = Append(cursors, NewCursor)
    /\ treeOut' = Append(treeOut, <<>>)
    /\ result' = Returned("iter", "generator", Len(cursors) + 1)
    /\ UNCHANGED <<script, root, fileVars, cycleVars, counterVars>>

\* next() on the generator that the c-th __iter__ returned
TreeNext ==
    /\ script = "tree"
    /\ \E c \in 1..Len(cursors) :
        /\ Len(treeOut[c]) < NodeCount(root) + MaxExtraCalls
        /\ cursors' = [cursors EXCEPT ![c] = Resume(cursors[c]).stack]
        /\ result' = Resume(cursors[c]).outcome
        /\ treeOut' = [treeOut EXCEPT ![c] = Append(@, Resume(cursors[c]).outcome)]
    /\ UNCHANGED <<script, root, fileVars, cycleVars, counterVars>>

(***************************************************************************)
(* The program: one of the four scripts.  The classes a behaviour does not *)
(* run stay as their usage demo constructs them.                           *)
(***************************************************************************)
Scripts == {"file", "cycle", "counter", "tree"}

Init ==
    /\ script \in Scripts
    /\ result = NoCall
    /\ content \in (IF script = "file" THEN Contents ELSE {DemoContent})
    /\ present \in (IF script = "file" THEN BOOLEAN ELSE {TRUE})
    /\ FileInit
    /\ data \in (IF script = "cycle" THEN Datas ELSE {DemoData})
    /\ CycleInit
    /\ start \in (IF script = "counter" THEN Starts ELSE {DemoStart})
    /\ CounterInit
    /\ root \in (IF script = "tree" THEN Trees ELSE {DemoTree})
    /\ TreeInit

Next ==
    \/ FileIter
    \/ FileNext
    \/ Finalize
    \/ FileSystemChange
    \/ CycleIter
    \/ CycleNext
    \/ CounterIter
    \/ CounterNext
    \/ TreeIter
    \/ TreeNext

Spec == Init /\ [][Next]_vars

(***************************************************************************)
(* Vocabulary of the properties                                            *)
(***************************************************************************)
\* the lines of a text: what lies between its "\n"s, terminators removed (a
\* last line need not be terminated)
RECURSIVE SplitLines(_, _)
SplitLines(text, cur) ==
    IF text = <<>>
    THEN IF cur = <<>> THEN <<>> ELSE <<cur>>
    ELSE IF Head(text) = "\n"
    THEN <<cur>> \o SplitLines(Tail(text), <<>>)
    ELSE SplitLines(Tail(text), Append(cur, Head(text)))

Lines == SplitLines(content, <<>>)

NonEmptyLines == \A i \in 1..Len(Lines) : Lines[i] # <<>>

Started == script = "file" /\ file # NoFile

\* an __next__ since the last successful __iter__ has raised StopIteration
Exhausted == \E i \in 1..Len(out) : out[i].kind = "stop"

OpenHandles == {h \in 1..Len(handles) : handles[h].open}

RECURSIVE SumCloses(_)
SumCloses(n) == IF n = 0 THEN 0 ELSE handles[n].closes + SumCloses(n - 1)

(***************************************************************************)
(* FileIterator: properties                                                *)
(***************************************************************************)
\* C1: once an __next__ of a started FileIterator has signalled exhaustion,
\* every later __next__ (no __iter__ in between) signals exhaustion again: it
\* raises no hard failure and the handle is not opened again.
C1_IdempotentExhaustion ==
    Started =>
        \A i, j \in 1..Len(out) :
            (i < j /\ out[i].kind = "stop") =>
                (out[j].kind = "stop" /\ ~handles[file].open)

\* C2: over any calls of __iter__ and __next__ the file is opened at most
\* once and closed exactly once on exhaustion; at most one handle is open at
\* any time and none is left open once exhaustion has been signalled.
C2_AcquireOnceReleaseOnce ==
    script = "file" =>
        /\ Len(handles) <= 1
        /\ Cardinality(OpenHandles) <= 1
        /\ Exhausted => (OpenHandles = {} /\ SumCloses(Len(handles)) = 1)

\* C3 as claimed: over a file of non-empty lines L, the first Len(L) calls of
\* __next__ after __iter__ return L[1], ..., L[Len(L)] unchanged, the next
\* call signals exhaustion, and the handle is closed exactly once, not before
\* the last line was returned and not after the call that signals exhaustion.
C3_LinesVerbatim ==
    (Started /\ NonEmptyLines) =>
        /\ \A i \in 1..Len(out) :
            /\ i <= Len(Lines) => out[i] = Elem(Lines[i])
            /\ i = Len(Lines) + 1 => out[i] = StopIteration
        /\ Len(out) < Len(Lines) =>
            (handles[file].open /\ handles[file].closes = 0)
        /\ Len(out) > Len(Lines) =>
            (~handles[file].open /\ handles[file].closes = 1)
        /\ handles[file].closes <= 1

\* C3, amended: as C3, but each returned element is the line with its leading
\* and trailing whitespace removed.
C3_LinesStripped ==
    (Started /\ NonEmptyLines) =>
        /\ \A i \in 1..Len(out) :
            /\ i <= Len(Lines) => out[i] = Elem(Strip(Lines[i]))
            /\ i = Len(Lines) + 1 => out[i] = StopIteration
        /\ Len(out) < Len(Lines) =>
            (handles[file].open /\ handles[file].closes = 0)
        /\ Len(out) > Len(Lines) =>
            (~handles[file].open /\ handles[file].closes = 1)
        /\ handles[file].closes <= 1

\* the file a\nb\nc\n read to exhaustion: a, b, c, StopIteration, closed once
C3_Witness ==
    /\ Started
    /\ content = DemoContent
    /\ out = <<Elem(<<"a">>), Elem(<<"b">>), Elem(<<"c">>), StopIteration>>
    /\ handles[file].closes = 1

\* a step of __iter__ (a failing __iter__ repeated changes nothing at all)
IterStep ==
    /\ result'.op = "iter"
    /\ result' # result \/ Len(handles') # Len(handles)

\* C8 as claimed: construction opens nothing, and after an __iter__ that
\* failed because the file is unavailable the producer holds no open handle.
C8_NoHandleAfterFailedStart ==
    script = "file" =>
        /\ result = NoCall => (file = NoFile /\ handles = <<>>)
        /\ (result.op = "iter" /\ result.kind = "error") =>
                (file = NoFile \/ ~handles[file].open)

\* C8, amended: construction opens nothing and raises nothing; an __iter__
\* called while the file is unavailable raises a hard failure (not
\* StopIteration), opens no handle (not then, and not by a retry), produces no
\* element and leaves self.file as it was: unset if no __iter__ has succeeded
\* before, else the handle of the last successful __iter__.
C8_FailedStartAcquiresNothing ==
    /\ script = "file" => (file = NoFile /\ handles = <<>> /\ result = NoCall)
    /\ [][(script = "file" /\ ~present /\ IterStep) =>
            /\ result' = Raised("iter", "FileNotFoundError")
            /\ Len(handles') = Len(handles)
            /\ file' = file
            /\ out' = out]_vars
    /\ [](script = "file" =>
            /\ Len(handles) = 0 => file = NoFile
            /\ (Len(handles) = 0 /\ result.op = "iter") => result.kind = "error")

\* a fresh producer after a failed __iter__: nothing opened, nothing bound
C8_Witness ==
    /\ script = "file"
    /\ ~present
    /\ result = Raised("iter", "FileNotFoundError")
    /\ file = NoFile
    /\ handles = <<>>

\* C9: only an __next__ that reads the end of the file closes the producer's
\* handle: after a successful __iter__, as long as no __next__ has raised
\* StopIteration, the handle stays open whatever else happens, so a caller
\* that stops early leaves it open.
C9_OpenUntilExhausted ==
    /\ [](Started /\ ~Exhausted =>
            (handles[file].open /\ handles[file].closes = 0))
    /\ [][\A h \in 1..Len(handles) :
            handles'[h].closes > handles[h].closes =>
                (h = file /\ result' = StopIteration /\ Len(out') = Len(out) + 1
                 /\ ReadLine(content, handles[h].pos) = <<>>)]_vars

\* iteration abandoned after the first of several lines: the handle is open
C9_Witness ==
    /\ Started
    /\ Len(Lines) >= 2
    /\ Len(out) = 1
    /\ out[1].kind = "elem"
    /\ handles[file].open

(***************************************************************************)
(* Cycle, InfiniteCounter: properties                                      *)
(***************************************************************************)
\* C4: over a non-empty list C, the n-th __next__ of a fresh Cycle (n from
\* 0) returns C[n mod len(C)], and no __next__ raises StopIteration.
C4_CycleElements ==
    (script = "cycle" /\ data # <<>>) =>
        \A n \in 0..(Len(cycleOut) - 1) :
            cycleOut[n + 1] = Elem(data[(n % Len(data)) + 1])

\* the usage demo: ten calls over [1, 2, 3] give 1 2 3 1 2 3 1 2 3 1
C4_Witness ==
    /\ script = "cycle"
    /\ data = DemoData
    /\ cycleOut = [n \in 1..10 |-> Elem(<<1, 2, 3, 1, 2, 3, 1, 2, 3, 1>>[n])]

\* C5: over an empty list the very first __next__ of a Cycle (and each one
\* after it) raises StopIteration, no other exception, and leaves self.index
\* as it was.
C5_EmptyCycle ==
    (script = "cycle" /\ data = <<>>) =>
        /\ \A n \in 1..Len(cycleOut) : cycleOut[n] = StopIteration
        /\ index = 0

\* an empty Cycle after its first __next__
C5_Witness ==
    /\ script = "cycle"
    /\ data = <<>>
    /\ cycleOut = <<StopIteration>>
    /\ result = StopIteration

\* C6: the k-th __next__ (k from 0) of an InfiniteCounter constructed with
\* start s returns s + k; no __next__ raises StopIteration.
C6_CounterValues ==
    script = "counter" =>
        \A k \in 0..(Len(counterOut) - 1) : counterOut[k + 1] = Elem(start + k)

\* the usage demo, InfiniteCounter(10), after the call that returns 21
C6_Witness ==
    /\ script = "counter"
    /\ start = DemoStart
    /\ Len(counterOut) = 12
    /\ result = Elem(21)

(***************************************************************************)
(* BinaryTree: properties                                                  *)
(***************************************************************************)
\* the in-order listing of a tree: the left subtree's, the node's own value,
\* the right subtree's
RECURSIVE InOrder(_)
InOrder(t) ==
    IF t = None THEN <<>> ELSE InOrder(Left(t)) \o <<Val(t)>> \o InOrder(Right(t))

\* the first n outcomes of a complete traversal of the tree
Traversal(n) ==
    [i \in 1..n |->
        IF i <= Len(InOrder(root)) THEN Elem(InOrder(root)[i]) ELSE StopIteration]

\* C7: iterating a BinaryTree produces its in-order listing, each node once:
\* the elements a generator has returned are the first ones of the listing,
\* one per call, and it is exhausted exactly when all NodeCount(root) of them
\* have been returned; the demo tree gives 4, 2, 5, 1, 3.
C7_InOrderSequence ==
    script = "tree" =>
        \A c \in 1..Len(cursors) :
            /\ \A i \in 1..Len(treeOut[c]) :
                /\ i <= NodeCount(root) => treeOut[c][i] = Elem(InOrder(root)[i])
                /\ i = NodeCount(root) + 1 => treeOut[c][i] = StopIteration
            /\ (root = DemoTree /\ Len(treeOut[c]) >= 5) =>
                    SubSeq(treeOut[c], 1, 5)
                        = <<Elem(4), Elem(2), Elem(5), Elem(1), Elem(3)>>

\* the demo tree iterated to the end
C7_Witness ==
    /\ script = "tree"
    /\ root = DemoTree
    /\ Len(cursors) >= 1
    /\ treeOut[1] = <<Elem(4), Elem(2), Elem(5), Elem(1), Elem(3), StopIteration>>

\* C10: every __iter__ returns a generator of its own that starts at the
\* first element, however far the earlier ones have got: what a generator has
\* returned depends only on how often it was advanced itself, and a step of
\* one generator, or a new __iter__, leaves every other generator as it is.
C10_IndependentCursors ==
    /\ [](script = "tree" =>
            \A c \in 1..Len(cursors) : treeOut[c] = Traversal(Len(treeOut[c])))
    /\ [][script = "tree" =>
            \A c \in 1..Len(cursors) :
                \/ cursors'[c] = cursors[c] /\ treeOut'[c] = treeOut[c]
                \/ /\ Len(treeOut'[c]) = Len(treeOut[c]) + 1
                   /\ \A d \in 1..Len(cursors) :
                        d # c => (cursors'[d] = cursors[d] /\ treeOut'[d] = treeOut[d])]_vars

\* a second generator, created after the first was exhausted, half way
\* through the listing while the first stays exhausted
C10_Witness ==
    /\ script = "tree"
    /\ Len(cursors) = 2
    /\ NodeCount(root) >= 2
    /\ Len(treeOut[1]) = NodeCount(root) + 1
    /\ Len(treeOut[2]) = 1
    /\ treeOut[2][1] = Elem(InOrder(root)[1])
    /\ result.op = "next"

(***************************************************************************)
(* Cycle, InfiniteCounter: cursors                                         *)
(***************************************************************************)
\* C11: self.index of a Cycle and self.current of an InfiniteCounter grow by
\* exactly 1 in every __next__ that returns an element and change in no
\* other step: they are never decreased or reset; the element a Cycle returns
\* is the one at index mod length, the index itself is not wrapped.
C11_CursorMonotonic ==
    /\ [][script = "cycle" =>
            /\ index' = index \/ index' = index + 1
            /\ index' = index + 1 <=>
                    (Len(cycleOut') = Len(cycleOut) + 1 /\ result'.kind = "elem")
            /\ index' = index + 1 => result' = Elem(data[(index % Len(data)) + 1])
            /\ data' = data]_vars
    /\ [][script = "counter" =>
            /\ current' = current \/ current' = current + 1
            /\ current' = current + 1 <=>
                    (Len(counterOut') = Len(counterOut) + 1 /\ result'.kind = "elem")]_vars
    /\ [](script = "cycle" =>
            index = Cardinality({n \in 1..Len(cycleOut) : cycleOut[n].kind = "elem"}))
    /\ [](script = "counter" => current = start + Len(counterOut))

\* a Cycle whose index has passed the length of its list
C11_Witness ==
    /\ script = "cycle"
    /\ data = DemoData
    /\ index = 5
    /\ result = Elem(2)

\* C12: __iter__ of a Cycle or an InfiniteCounter returns the object itself
\* and changes neither the cursor nor the data: called after k __next__ calls
\* it does not restart the sequence, the next __next__ returns what it would
\* have returned without it.
C12_IterNoSideEffect ==
    /\ [][(script = "cycle" /\ result'.op = "iter") =>
            /\ result' = Returned("iter", "self", "self")
            /\ UNCHANGED cycleVars
            /\ CycleOutcome' = CycleOutcome]_vars
    /\ [][(script = "counter" /\ result'.op = "iter") =>
            /\ result' = Returned("iter", "self", "self")
            /\ UNCHANGED counterVars
            /\ CounterValue' = CounterValue]_vars

\* __iter__ called on a Cycle after two __next__ calls
C12_Witness ==
    /\ script = "cycle"
    /\ data = DemoData
    /\ Len(cycleOut) = 2
    /\ index = 2
    /\ result = Returned("iter", "self", "self")

(***************************************************************************)
(* BinaryTree: termination                                                 *)
(***************************************************************************)
\* C13: over a tree of N nodes (N = 0 for root = None) a generator returns
\* an element in each of its first N __next__ calls and raises StopIteration
\* in the call after them and in every later call; once it is exhausted no
\* frame of it is left.
C13_TraversalTerminates ==
    script = "tree" =>
        \A c \in 1..Len(cursors) :
            /\ \A i \in 1..Len(treeOut[c]) :
                IF i <= NodeCount(root)
                THEN treeOut[c][i].kind = "elem"
                ELSE treeOut[c][i] = StopIteration
            /\ Len(treeOut[c]) > NodeCount(root) => cursors[c] = <<>>
            /\ Len(cursors[c]) <= NodeCount(root) + 1

\* a generator over a tree of three nodes advanced two times past its end
C13_Witness ==
    /\ script = "tree"
    /\ NodeCount(root) = 3
    /\ Len(cursors) >= 1
    /\ Len(treeOut[1]) = 5
    /\ treeOut[1][4] = StopIteration
    /\ treeOut[1][5] = StopIteration

(***************************************************************************)
(* FileIterator: further properties                                        *)
(***************************************************************************)
\* C14: __next__ on a FileIterator whose __iter__ has never bound self.file
\* raises a hard failure (AttributeError): it returns no element, does not
\* raise StopIteration and opens no handle.
C14_NextBeforeIter ==
    (script = "file" /\ file = NoFile) =>
        /\ \A i \in 1..Len(out) : out[i] = Raised("next", "AttributeError")
        /\ result.op = "next" => result = Raised("next", "AttributeError")
        /\ handles = <<>>

\* __next__ called on a FileIterator fresh from its constructor
C14_Witness ==
    /\ script = "file"
    /\ file = NoFile
    /\ present
    /\ out = <<Raised("next", "AttributeError")>>
    /\ result = Raised("next", "AttributeError")

\* C15: a FileIterator raises StopIteration and closes its handle only at
\* the true end of the file: a blank or whitespace-only line before the end
\* is returned as the empty string, the handle stays open and the lines after
\* it follow in order; every element is the raw line with its leading and
\* trailing whitespace removed.
C15_BlankLinesAreElements ==
    Started =>
        /\ \A i \in 1..Len(out) :
            /\ i <= Len(Lines) => out[i] = Elem(Strip(Lines[i]))
            /\ (i <= Len(Lines) /\ Lines[i] \in SeqsUpTo(Whitespace, Len(Lines[i]))) =>
                    out[i] = Elem(<<>>)
            /\ out[i].kind = "stop" => i = Len(Lines) + 1
        /\ ~handles[file].open =>
            (Exhausted /\ handles[file].pos = Len(content) /\ Len(out) > Len(Lines))

\* the file a, '', b read to its second line: the blank line was returned as
\* '' and the handle is open
C15_Witness ==
    /\ Started
    /\ content = GappedContent
    /\ out = <<Elem(<<"a">>), Elem(<<>>)>>
    /\ handles[file].open

\* every line of the file from the first, then StopIteration, as far as the
\* __next__ calls since the last successful __iter__ go
FromFirstLine ==
    \A i \in 1..Len(out) :
        /\ i <= Len(Lines) => out[i] = Elem(Strip(Lines[i]))
        /\ i = Len(Lines) + 1 => out[i] = StopIteration

\* C16 as claimed: a new __iter__ makes the FileIterator yield the whole
\* file again from its first line, and a handle it replaced before that
\* handle was exhausted stays open.
C16_ReplacedHandleStaysOpen ==
    script = "file" =>
        /\ file >= 2 => FromFirstLine
        /\ \A h \in 1..Len(handles) :
            (h # file /\ handles[h].closes = 0) => handles[h].open

\* C16, amended: an __iter__ that opens the file binds self.file to a new
\* handle at the first line and never calls close() on the handle it
\* replaces: after exhaustion, and in the middle of an iteration alike, the
\* producer yields the whole file again from the first line; a handle
\* replaced in the middle of an iteration is never closed by the producer (it
\* is open until the runtime reclaims the unreferenced file object, which may
\* be at once, later or never).
C16_IterRestartsWithoutClosing ==
    /\ [](script = "file" => (file >= 2 => FromFirstLine))
    /\ [][(script = "file" /\ Len(handles') = Len(handles) + 1) =>
            /\ result' = Returned("iter", "self", "self")
            /\ file' = Len(handles')
            /\ handles'[file'] = [pos |-> 0, open |-> TRUE, closes |-> 0]
            /\ out' = <<>>
            /\ \A h \in 1..Len(handles) :
                /\ handles'[h].closes = handles[h].closes
                /\ handles'[h].pos = handles[h].pos]_vars
    /\ [][script = "file" =>
            \A h \in 1..Len(handles) :
                h # file => (/\ handles'[h].closes = handles[h].closes
                             /\ handles'[h].pos = handles[h].pos
                             /\ handles'[h].open => handles[h].open)]_vars

\* __iter__ called again after the first line of a, b, c: the second handle
\* has given the whole file, the first was never closed by the producer
C16_Witness ==
    /\ script = "file"
    /\ content = DemoContent
    /\ file = 2
    /\ handles[1].pos = 2
    /\ handles[1].closes = 0
    /\ handles[1].open
    /\ out = <<Elem(<<"a">>), Elem(<<"b">>), Elem(<<"c">>), StopIteration>>

====
